---- MODULE Spec2Model ----
(***************************************************************************)
(* Model of BettingApp.py (Golf Value Finder): the odds converter, the     *)
(* name reconciler with its persisted manual mappings, the win and         *)
(* positional market analysis, the each-way merge and ranking, and the     *)
(* Streamlit handlers (Run Analysis, sidebar settings, Save Match, Update  *)
(* Odds, Clear App State) that drive them.                                 *)
(*                                                                         *)
(* Texts that the code parses (odds cells, prediction cells) are sequences *)
(* of one-character strings; numbers are exact rationals [n, d] in lowest  *)
(* terms with d > 0 (the code computes in binary floating point; the       *)
(* inputs used here are exact in both).                                    *)
(***************************************************************************)
EXTENDS Integers, Sequences, FiniteSets, TLC

VARIABLES
    datagolf_df,      \* st.session_state.datagolf_df: NoTable or a prediction table
    bookmaker_df,     \* st.session_state.bookmaker_df_1..4: NoTable or a table
    bookmaker_name,   \* sidebar text inputs name_1..4
    bookmaker_places, \* sidebar number inputs places_1..4
    place_term,       \* sidebar radios term_1..4
    mappings_file,    \* manual_matches.csv: whether it exists, and its data rows
    view,             \* what the last script run rendered
    saved,            \* history: raw name -> target of the last Save Match for it
    tweaks,           \* sidebar changes and odds edits since the session was cleared
    arg,              \* converter harness: the text handed to fractional_to_decimal
    ret               \* converter harness: what the call produced

vars == <<datagolf_df, bookmaker_df, bookmaker_name, bookmaker_places, place_term,
          mappings_file, view, saved, tweaks, arg, ret>>

-----------------------------------------------------------------------------
(* Bounds of the model *)

MaxTweaks == 2
MaxSources == 2
MaxUploads == 1
MaxLen == 4

(* Program constants *)

NumSlots == 4
ScoreCutoff == 90
DefaultPlaces == 5

-----------------------------------------------------------------------------
(* Exact rationals *)

Abs(x) == IF x < 0 THEN -x ELSE x

RECURSIVE Gcd(_, _)
Gcd(a, b) == IF b = 0 THEN a ELSE Gcd(b, a % b)

Rat(n, d) ==
    LET s == IF d < 0 THEN -1 ELSE 1
        g == Gcd(Abs(n), Abs(d))
    IN  [kind |-> "num", n |-> (s * n) \div g, d |-> (s * d) \div g]

RInt(i) == [kind |-> "num", n |-> i, d |-> 1]
RAdd(x, y) == Rat(x.n * y.d + y.n * x.d, x.d * y.d)
RSub(x, y) == Rat(x.n * y.d - y.n * x.d, x.d * y.d)
RMul(x, y) == Rat(x.n * y.n, x.d * y.d)
RDiv(x, y) == Rat(x.n * y.d, x.d * y.n)
RLess(x, y) == x.n * y.d < y.n * x.d

(* Python's None, pandas' NaN, and an exception leaving a call *)
None == [kind |-> "None"]
NaN == [kind |-> "NaN"]
Raise(e) == [kind |-> "raise", exc |-> e]
IsNum(x) == x.kind = "num"
IsNull(x) == x.kind \in {"None", "NaN"}

-----------------------------------------------------------------------------
(* Text parsing: int(), float(), str.split *)

Digits == {"0", "1", "2", "3", "4", "5", "6", "7", "8", "9"}

DigitVal(c) ==
    CASE c = "0" -> 0 [] c = "1" -> 1 [] c = "2" -> 2 [] c = "3" -> 3
      [] c = "4" -> 4 [] c = "5" -> 5 [] c = "6" -> 6 [] c = "7" -> 7
      [] c = "8" -> 8 [] c = "9" -> 9

AllDigits(s) == \A i \in 1..Len(s) : s[i] \in Digits

RECURSIVE DigitsVal(_)
DigitsVal(s) ==
    IF s = <<>> THEN 0
    ELSE 10 * DigitsVal(SubSeq(s, 1, Len(s) - 1)) + DigitVal(s[Len(s)])

RECURSIVE Pow10(_)
Pow10(k) == IF k = 0 THEN 1 ELSE 10 * Pow10(k - 1)

HasChar(s, c) == \E i \in 1..Len(s) : s[i] = c

\* s.split(sep): the pieces between the occurrences of sep
RECURSIVE Split(_, _)
Split(s, sep) ==
    IF ~HasChar(s, sep) THEN <<s>>
    ELSE LET i == CHOOSE j \in 1..Len(s) :
                      s[j] = sep /\ \A k \in 1..(j - 1) : s[k] # sep
         IN  <<SubSeq(s, 1, i - 1)>> \o Split(SubSeq(s, i + 1, Len(s)), sep)

\* int(s): an optional sign and at least one digit; anything else is a ValueError
ParseInt(s) ==
    LET neg == s # <<>> /\ s[1] = "-"
        body == IF neg THEN Tail(s) ELSE s
    IN  IF body # <<>> /\ AllDigits(body)
        THEN [ok |-> TRUE, v |-> IF neg THEN -DigitsVal(body) ELSE DigitsVal(body)]
        ELSE [ok |-> FALSE, v |-> 0]

\* the value of the digits ip, a point and the digits fp
FloatValue(ip, fp) ==
    Rat(DigitsVal(ip) * Pow10(Len(fp)) + DigitsVal(fp), Pow10(Len(fp)))

\* float of a sign, the digits before the point and the digits after it, n
\* being the number of pieces the point splits the text into
FloatParts(neg, ip, fp, n) ==
    IF n <= 2 /\ AllDigits(ip) /\ AllDigits(fp) /\ (ip # <<>> \/ fp # <<>>)
    THEN [ok |-> TRUE,
          v |-> IF neg THEN RSub(RInt(0), FloatValue(ip, fp)) ELSE FloatValue(ip, fp)]
    ELSE [ok |-> FALSE, v |-> RInt(0)]

\* float of a sign and the pieces around the point
FloatSplit(neg, parts) ==
    FloatParts(neg, parts[1], IF Len(parts) = 2 THEN parts[2] ELSE <<>>, Len(parts))

\* float(s): an optional sign, digits with at most one point and a digit on one side
ParseFloat(s) ==
    FloatSplit(s # <<>> /\ s[1] = "-",
               Split(IF s # <<>> /\ s[1] = "-" THEN Tail(s) ELSE s, "."))

-----------------------------------------------------------------------------
(* Helper functions of the program *)

\* (num / den) + 1.0 for the n converted pieces of a text with a "/": None when
\* a piece is no int or there are not two of them (ValueError, caught); the
\* ZeroDivisionError of den = 0 is not among the caught exceptions
Fraction(ints, n) ==
    IF n # 2 \/ \E i \in 1..n : ~ints[i].ok
    THEN None
    ELSE IF ints[2].v = 0
         THEN Raise("ZeroDivisionError")
         ELSE RAdd(Rat(ints[1].v, ints[2].v), RInt(1))

\* map(int, parts), and the two-name unpacking of the result
FractionSplit(parts) ==
    Fraction([i \in 1..Len(parts) |-> ParseInt(parts[i])], Len(parts))

\* the parsed number, or what stands for a text that is no number
NumberOr(f, absent) == IF f.ok THEN f.v ELSE absent

\* fractional_to_decimal: a number, None, or the exception that leaves the call.
\* Only ValueError and TypeError are caught; num / den with den = 0 raises
\* ZeroDivisionError, which is neither.
fractional_to_decimal(fractional_odds) ==
    IF HasChar(fractional_odds, "/")
    THEN FractionSplit(Split(fractional_odds, "/"))
    ELSE NumberOr(ParseFloat(fractional_odds), None)

\* pd.to_numeric(x, errors='coerce') of a text cell: its number, or NaN
to_numeric(cell) == NumberOr(ParseFloat(cell), NaN)

-----------------------------------------------------------------------------
(* Python dicts, kept as the sequence of their items in insertion order *)

DictHas(d, k) == \E i \in 1..Len(d) : d[i][1] = k
DictGet(d, k) == d[CHOOSE i \in 1..Len(d) : d[i][1] = k][2]
DictSet(d, k, v) ==
    IF DictHas(d, k)
    THEN [i \in 1..Len(d) |-> IF d[i][1] = k THEN <<k, v>> ELSE d[i]]
    ELSE Append(d, <<k, v>>)
DictKeys(d) == [i \in 1..Len(d) |-> d[i][1]]

\* A missing manual_matches.csv, and a session slot holding None
NoFile == [exists |-> FALSE, rows |-> <<>>]
NoTable == [loaded |-> FALSE, cols |-> {}, rows |-> <<>>]

\* load_manual_mappings: {} when the file is missing; otherwise the rows folded
\* into a dict by set_index(...).to_dict(), a repeated name keeping its last row
RECURSIVE RowsToDict(_)
RowsToDict(rows) ==
    IF rows = <<>> THEN <<>>
    ELSE LET r == rows[Len(rows)]
         IN  DictSet(RowsToDict(SubSeq(rows, 1, Len(rows) - 1)), r[1], r[2])

load_manual_mappings(file) == IF file.exists THEN RowsToDict(file.rows) ELSE <<>>

\* (mutant) the file is rewritten with the newest item only
save_manual_mappings_NewestOnly(mappings_dict) ==
    [exists |-> TRUE,
     rows |-> IF mappings_dict = <<>> THEN <<>>
              ELSE <<mappings_dict[Len(mappings_dict)]>>]

\* save_manual_mappings: one row per item of the dict, the whole file rewritten
save_manual_mappings(mappings_dict) ==
    [exists |-> TRUE,
     rows |-> [i \in 1..Len(mappings_dict) |-> <<mappings_dict[i][1], mappings_dict[i][2]>>]]

-----------------------------------------------------------------------------
(* Name matching *)

\* The similarity score (0..100) thefuzz gives a bookmaker name against a
\* candidate, for the names used here: equal names score 100, "T Woods" scores
\* exactly the cutoff against two candidates, "R McIlroy" scores one below it.
Score(name, choice) ==
    CASE name = choice -> 100
      [] name = "T Woods" /\ choice \in {"Tiger Woods", "Tom Woods"} -> 90
      [] name = "R McIlroy" /\ choice = "Rory McIlroy" -> 89
      [] name = "R McIlroy" /\ choice = "Tom Woods" -> 40
      [] OTHER -> 30

\* (mutant) a score equal to the cutoff is rejected
find_best_match_AboveCutoff(name, choices, score_cutoff) ==
    LET ok == {i \in 1..Len(choices) : Score(name, choices[i]) > score_cutoff}
    IN  IF ok = {} THEN None
        ELSE LET best == CHOOSE i \in ok :
                            \A j \in ok :
                               \/ Score(name, choices[j]) < Score(name, choices[i])
                               \/ (Score(name, choices[j]) = Score(name, choices[i]) /\ i <= j)
             IN  [kind |-> "name", name |-> choices[best]]

\* find_best_match: process.extractOne keeps the first choice with the highest
\* score among those scoring at least score_cutoff; None when there is none
find_best_match(name, choices, score_cutoff) ==
    LET ok == {i \in 1..Len(choices) : Score(name, choices[i]) >= score_cutoff}
    IN  IF ok = {} THEN None
        ELSE LET best == CHOOSE i \in ok :
                            \A j \in ok :
                               \/ Score(name, choices[j]) < Score(name, choices[i])
                               \/ (Score(name, choices[j]) = Score(name, choices[i]) /\ i <= j)
             IN  [kind |-> "name", name |-> choices[best]]

\* get_match: the manual mapping when there is one, else the fuzzy match
get_match(name, manual_mappings, datagolf_player_list) ==
    IF DictHas(manual_mappings, name)
    THEN [kind |-> "name", name |-> DictGet(manual_mappings, name)]
    ELSE find_best_match(name, datagolf_player_list, ScoreCutoff)

\* Series.unique().tolist(): the values in order of first appearance
RECURSIVE Unique(_)
Unique(s) ==
    IF s = <<>> THEN <<>>
    ELSE LET u == Unique(SubSeq(s, 1, Len(s) - 1))
             x == s[Len(s)]
         IN  IF \E i \in 1..Len(u) : u[i] = x THEN u ELSE Append(u, x)

-----------------------------------------------------------------------------
(* The analysis functions *)

Slots == 1..NumSlots

\* (x / y - 1) * 100
EdgePercent(x, y) == RMul(RSub(RDiv(x, y), RInt(1)), RInt(100))

RECURSIVE Concat(_)
Concat(ss) == IF ss = <<>> THEN <<>> ELSE Head(ss) \o Concat(Tail(ss))

\* df['Edge'] = (Bookmaker Odds / DataGolf Odds - 1) * 100
EdgeColumn(kept) ==
    [i \in 1..Len(kept) |->
       [Edge |-> EdgePercent(kept[i].BookmakerOdds, kept[i].DataGolfOdds)] @@ kept[i]]

\* dropna(subset=['Bookmaker Odds', 'DataGolf Odds']) and the edge column
WithEdge(rows) ==
    LET keep(r) == IsNum(r.BookmakerOdds) /\ IsNum(r.DataGolfOdds)
    IN  EdgeColumn(SelectSeq(rows, keep))

\* a market's table, or the exception raised while its odds column was computed
Market(df) ==
    IF \E i \in 1..Len(df) : df[i].BookmakerOdds.kind = "raise"
    THEN [raised |-> TRUE, rows |-> <<>>]
    ELSE [raised |-> FALSE, rows |-> WithEdge(df)]

\* process_win_market: the rows with both odds numeric, with their edge; or the
\* exception that fractional_to_decimal let through
process_win_market(base_comparison_df) ==
    Market([i \in 1..Len(base_comparison_df) |->
              [BookmakerOdds |-> fractional_to_decimal(base_comparison_df[i].FractionalOdds),
               DataGolfOdds |-> to_numeric(base_comparison_df[i].win)]
              @@ base_comparison_df[i]])

\* 1 + (decimal_odds - 1) / divisor, or None for no decimal odds
PlaceOdds(decimal_odds, divisor) ==
    IF decimal_odds.kind = "raise" THEN decimal_odds
    ELSE IF decimal_odds = None THEN None
    ELSE RAdd(RInt(1), RDiv(RSub(decimal_odds, RInt(1)), RInt(divisor)))

\* calculate_place_odds: 1 + (decimal - 1) / divisor, the divisor read from the
\* row's place term
calculate_place_odds(row) ==
    PlaceOdds(fractional_to_decimal(row.FractionalOdds),
              ParseInt(Split(row.PlaceTerm, "/")[2]).v)

\* row.get("top_<Places>"): None when the table has no such column, which
\* to_numeric turns into NaN
TopOdds(row) ==
    IF row.Places \in DOMAIN row.top THEN to_numeric(row.top[row.Places]) ELSE NaN

\* process_positional_market
process_positional_market(base_comparison_df) ==
    Market([i \in 1..Len(base_comparison_df) |->
              [BookmakerOdds |-> calculate_place_odds(base_comparison_df[i]),
               DataGolfOdds |-> TopOdds(base_comparison_df[i])]
              @@ base_comparison_df[i]])

\* the join key of pd.merge(..., on=['Player', 'Bookmaker'])
MergeKey(r) == <<r.Player, r.Bookmaker>>

\* (mutant) the merge joins on the player alone
ew_df_OnPlayer(win_df, pos_df) ==
    LET same(w) == LET k(p) == p.Player = w.Player IN SelectSeq(pos_df, k)
        joined(w) == LET m == same(w)
                     IN  [j \in 1..Len(m) |->
                            [Player |-> w.Player, Bookmaker |-> w.Bookmaker,
                             BookmakerOdds |-> w.BookmakerOdds,
                             EachWayValue |-> RDiv(RAdd(w.Edge, m[j].Edge), RInt(2)),
                             wsrc |-> w.src, psrc |-> m[j].src]]
    IN  Concat([i \in 1..Len(win_df) |-> joined(win_df[i])])

\* pd.merge (inner) of the win and positional rows and the 'Each Way Value'
\* column, before the sort: left order kept, one row per matching pair of rows
ew_df(win_df, pos_df) ==
    LET same(w) == LET k(p) == MergeKey(p) = MergeKey(w) IN SelectSeq(pos_df, k)
        joined(w) == LET m == same(w)
                     IN  [j \in 1..Len(m) |->
                            [Player |-> w.Player, Bookmaker |-> w.Bookmaker,
                             BookmakerOdds |-> w.BookmakerOdds,
                             EachWayValue |-> RDiv(RAdd(w.Edge, m[j].Edge), RInt(2)),
                             wsrc |-> w.src, psrc |-> m[j].src]]
    IN  Concat([i \in 1..Len(win_df) |-> joined(win_df[i])])

\* sort_values(by='Each Way Value', ascending=False) with the default kind
\* ('quicksort'), which promises no order among equal keys: every arrangement
\* of the rows that is descending by value is a possible result
RECURSIVE DescendingOrders(_, _)
DescendingOrders(df, idx) ==
    IF idx = {} THEN {<<>>}
    ELSE LET top == {i \in idx : \A j \in idx : ~RLess(df[i].EachWayValue, df[j].EachWayValue)}
         IN  UNION {{<<df[i]>> \o rest : rest \in DescendingOrders(df, idx \ {i})} : i \in top}

\* merge_and_calculate_ew: the possible sorted results
merge_and_calculate_ew(win_df, pos_df) ==
    LET df == ew_df(win_df, pos_df) IN DescendingOrders(df, 1..Len(df))

\* add_player_occurrence_count: 'Player' becomes 'Points', the name followed by
\* its 1-based running count "(n)"; the other columns are copied
add_player_occurrence_count(df) ==
    [i \in 1..Len(df) |->
        [Points |-> [name |-> df[i].Player,
                     count |-> Cardinality({j \in 1..i : df[j].Player = df[i].Player})],
         Bookmaker |-> df[i].Bookmaker,
         BookmakerOdds |-> df[i].BookmakerOdds,
         EachWayValue |-> df[i].EachWayValue]]

-----------------------------------------------------------------------------
(* The inputs a user can supply *)

DefaultName(k) ==
    CASE k = 1 -> "Bookmaker 1" [] k = 2 -> "Bookmaker 2"
      [] k = 3 -> "Bookmaker 3" [] k = 4 -> "Bookmaker 4"

\* what can be typed into the name input of slot k: its default, or the name
\* slot 1 starts with
NameChoices(k) == {DefaultName(k), "Bookmaker 1"}
PlaceChoices == {DefaultPlaces, 7}
TermChoices == {<<"1", "/", "5">>, <<"1", "/", "4">>}
DefaultTerm == <<"1", "/", "5">>

BookRow(p, o) == [Player |-> p, FractionalOdds |-> o]
BookTable(rows) == [loaded |-> TRUE, cols |-> {}, rows |-> rows]

\* the odds file uploaded to slot k (read with names=['Player', 'Fractional Odds'])
UploadFile(k) ==
    CASE k = 1 -> BookTable(<<BookRow("Tiger Woods", <<"1", "0", "/", "1">>),
                              BookRow("R McIlroy", <<"7", "/", "1">>)>>)
      [] k = 2 -> BookTable(<<BookRow("T Woods", <<"1", "0", "/", "1">>),
                              BookRow("Tiger Woods", <<"4", ".", "5">>)>>)
      [] k = 3 -> BookTable(<<BookRow("R McIlroy", <<"5", "/", "0">>)>>)
      [] k = 4 -> BookTable(<<BookRow("Tiger Woods", <<"1", "2", "/", "1">>),
                              BookRow("P Unknown", <<"a", "b", "c">>)>>)

\* what can be typed into "New Fractional Odds"
NewOddsChoices == {<<"5", "/", "0">>}

DGRow(p, w, t) == [player_name |-> p, win |-> w, top |-> t]

\* the prediction files that can be uploaded: the first has no top_7 column and
\* lists three players; the second has top_5 and top_7, lists two players in
\* another order, and has a win cell that is no number
DataGolfFiles ==
    { [loaded |-> TRUE, cols |-> {5},
       rows |-> <<DGRow("Tiger Woods", <<"9", ".", "0">>, (5 :> <<"2", ".", "0">>)),
                  DGRow("Tom Woods", <<"5", "0">>, (5 :> <<"1", "0">>)),
                  DGRow("Rory McIlroy", <<"8", ".", "5">>, (5 :> <<"1", ".", "9">>))>>],
      [loaded |-> TRUE, cols |-> {5, 7},
       rows |-> <<DGRow("Tom Woods", <<"a", "b", "c">>,
                        (5 :> <<"1", "0">> @@ 7 :> <<"1", "2">>)),
                  DGRow("Tiger Woods", <<"9", ".", "0">>,
                        (5 :> <<"2", ".", "0">> @@ 7 :> <<"2", ".", "5">>))>>] }

RawNames == {"Tiger Woods", "T Woods", "R McIlroy", "P Unknown"}
CanonicalNames == {"Tiger Woods", "Tom Woods", "Rory McIlroy"}
\* what the user picks in the "Find Match" select box, when it is offered
MatchChoices == {"Rory McIlroy"}
Unsaved == "-"

-----------------------------------------------------------------------------
(* One run of the script's main analysis block *)

\* the concatenated bookmaker rows (pd.concat of the loaded slots, in slot
\* order), each tagged with its slot's current settings; src names the table
\* row an entry comes from
BookmakerRows(bk, names, places, terms) ==
    Concat([k \in Slots |->
              IF bk[k].loaded
              THEN [i \in 1..Len(bk[k].rows) |->
                      [src |-> <<k, i>>,
                       Player |-> bk[k].rows[i].Player,
                       FractionalOdds |-> bk[k].rows[i].FractionalOdds,
                       Bookmaker |-> names[k],
                       Places |-> places[k],
                       PlaceTerm |-> terms[k]]]
              ELSE <<>>])

\* bookmaker_options: display name -> the slot whose table it refers to; a later
\* slot with the same name replaces the earlier one
RECURSIVE OptionsUpTo(_, _, _)
OptionsUpTo(bk, names, k) ==
    IF k = 0 THEN <<>>
    ELSE LET d == OptionsUpTo(bk, names, k - 1)
         IN  IF bk[k].loaded THEN DictSet(d, names[k], k) ELSE d

bookmaker_options(bk, names) == OptionsUpTo(bk, names, NumSlots)

datagolf_player_list(dg) == Unique([i \in 1..Len(dg.rows) |-> dg.rows[i].player_name])

\* bookmaker_df['matched_player']
MatchedRows(dg, bk, names, places, terms, file) ==
    LET rows == BookmakerRows(bk, names, places, terms)
        manual_mappings == load_manual_mappings(file)
        list == datagolf_player_list(dg)
    IN  [i \in 1..Len(rows) |->
           [matched_player |-> get_match(rows[i].Player, manual_mappings, list)] @@ rows[i]]

\* unmatched_players: the names of the rows whose match is null
unmatched_players(matched) ==
    LET null(r) == IsNull(r.matched_player)
        rows == SelectSeq(matched, null)
    IN  [i \in 1..Len(rows) |-> rows[i].Player]

\* base_comparison_df: the inner merge of the matched rows with the prediction
\* table on matched_player = player_name, in the order of the bookmaker rows
base_comparison_df(matched, dg) ==
    LET joined(r) ==
            IF IsNull(r.matched_player) THEN <<>>
            ELSE LET hit(d) == d.player_name = r.matched_player.name
                     m == SelectSeq(dg.rows, hit)
                 IN  [j \in 1..Len(m) |-> m[j] @@ r]
    IN  Concat([i \in 1..Len(matched) |-> joined(matched[i])])

\* the columns shown in the detailed market tables, and the table row and the
\* matched name each shown row comes from
Detailed(df) ==
    [i \in 1..Len(df) |->
        [src |-> df[i].src, matched_player |-> df[i].matched_player.name,
         Player |-> df[i].Player, Bookmaker |-> df[i].Bookmaker,
         BookmakerOdds |-> df[i].BookmakerOdds, DataGolfOdds |-> df[i].DataGolfOdds,
         Edge |-> df[i].Edge]]

\* what a script run shows: the messages (with the exception named by the
\* error message), the unmatched names offered for manual matching, the number
\* of joined rows, and the tables
EmptyView ==
    [ran |-> FALSE, warning |-> FALSE, success |-> FALSE, info |-> FALSE,
     error |-> FALSE, cause |-> "", unmatched |-> <<>>, matches |-> 0, win |-> <<>>,
     pos |-> <<>>, ew |-> <<>>, labeled |-> <<>>]

\* (mutant) the message is shown whenever the join is empty
InfoShown_JoinEmpty(base, unmatched) == base = <<>>

\* "No matching players found." is shown when the join is empty and no name is
\* unmatched (elif not unmatched_players)
InfoShown(base, unmatched) == base = <<>> /\ unmatched = <<>>

\* the messages above the tables
HeadView(unmatched, base) ==
    [EmptyView EXCEPT !.ran = TRUE, !.warning = unmatched # <<>>,
                      !.unmatched = unmatched, !.matches = Len(base)]

\* the analysis of a non-empty join: the error message when a market raised,
\* else the tables (several renderings only where the sort leaves the order open)
RenderMarkets(head, win_df, pos_df) ==
    IF win_df.raised \/ pos_df.raised
    THEN {[head EXCEPT !.success = TRUE, !.error = TRUE, !.cause = "ZeroDivisionError"]}
    ELSE {[head EXCEPT !.success = TRUE,
                       !.win = Detailed(win_df.rows), !.pos = Detailed(pos_df.rows),
                       !.ew = ew_results,
                       !.labeled = add_player_occurrence_count(ew_results)] :
             ew_results \in merge_and_calculate_ew(win_df.rows, pos_df.rows)}

\* what is shown for the join: the no-match branch, or the analysis
RenderJoin(unmatched, base) ==
    IF base = <<>>
    THEN {[HeadView(unmatched, base) EXCEPT !.info = InfoShown(base, unmatched)]}
    ELSE RenderMarkets(HeadView(unmatched, base),
                       process_win_market(base), process_positional_market(base))

\* what is shown for the matched bookmaker rows
RenderMatched(matched, dg) ==
    RenderJoin(unmatched_players(matched), base_comparison_df(matched, dg))

\* The possible renderings of the main analysis block for a given session state
\* and mappings file
Views(dg, bk, names, places, terms, file) ==
    IF ~(dg.loaded /\ \E k \in Slots : bk[k].loaded) THEN {EmptyView}
    ELSE RenderMatched(MatchedRows(dg, bk, names, places, terms, file), dg)

-----------------------------------------------------------------------------
(* The state machine: one action per handler, each followed by the script's
   rerun of the main analysis block *)

Init ==
    /\ datagolf_df = NoTable
    /\ bookmaker_df = [k \in Slots |-> NoTable]
    /\ bookmaker_name = [k \in Slots |-> DefaultName(k)]
    /\ bookmaker_places = [k \in Slots |-> DefaultPlaces]
    /\ place_term = [k \in Slots |-> DefaultTerm]
    /\ mappings_file = NoFile
    /\ view = EmptyView
    /\ saved = [x \in RawNames |-> Unsaved]
    /\ tweaks = 0
    /\ arg = <<>>
    /\ ret = None

Rerun == view' \in Views(datagolf_df', bookmaker_df', bookmaker_name',
                         bookmaker_places', place_term', mappings_file')

\* "Run Analysis" with a prediction file and a file for each slot of uploads:
\* the session tables of those slots are replaced, the others are kept
RunAnalysis(uploads, datagolf_file) ==
    /\ uploads # {}
    /\ Cardinality(uploads) <= MaxUploads
    /\ Cardinality(uploads \cup {k \in Slots : bookmaker_df[k].loaded}) <= MaxSources
    /\ datagolf_df' = datagolf_file
    /\ bookmaker_df' = [k \in Slots |->
                          IF k \in uploads THEN UploadFile(k) ELSE bookmaker_df[k]]
    /\ UNCHANGED <<bookmaker_name, bookmaker_places, place_term, mappings_file,
                   saved, tweaks, arg, ret>>
    /\ Rerun

\* "Run Analysis" with no bookmaker file or no prediction file: a warning and
\* st.stop(), so nothing below the button is rendered
RunMissingFile ==
    /\ view' = EmptyView
    /\ UNCHANGED <<datagolf_df, bookmaker_df, bookmaker_name, bookmaker_places,
                   place_term, mappings_file, saved, tweaks, arg, ret>>

\* a sidebar setting of slot k is changed
SetName(k, name) ==
    /\ tweaks < MaxTweaks
    /\ name # bookmaker_name[k]
    /\ bookmaker_name' = [bookmaker_name EXCEPT ![k] = name]
    /\ tweaks' = tweaks + 1
    /\ UNCHANGED <<datagolf_df, bookmaker_df, bookmaker_places, place_term,
                   mappings_file, saved, arg, ret>>
    /\ Rerun

SetPlaces(k, places) ==
    /\ tweaks < MaxTweaks
    /\ places # bookmaker_places[k]
    /\ bookmaker_places' = [bookmaker_places EXCEPT ![k] = places]
    /\ tweaks' = tweaks + 1
    /\ UNCHANGED <<datagolf_df, bookmaker_df, bookmaker_name, place_term,
                   mappings_file, saved, arg, ret>>
    /\ Rerun

SetTerm(k, term) ==
    /\ tweaks < MaxTweaks
    /\ term # place_term[k]
    /\ place_term' = [place_term EXCEPT ![k] = term]
    /\ tweaks' = tweaks + 1
    /\ UNCHANGED <<datagolf_df, bookmaker_df, bookmaker_name, bookmaker_places,
                   mappings_file, saved, arg, ret>>
    /\ Rerun

\* "Save Match": the chosen unmatched name is mapped to the chosen prediction
\* name in the dict loaded by this run, and the whole dict is written back
SaveMatch(unmatched_choice, datagolf_choice) ==
    /\ \E i \in 1..Len(view.unmatched) : view.unmatched[i] = unmatched_choice
    /\ LET manual_mappings == load_manual_mappings(mappings_file)
       IN  mappings_file' =
               save_manual_mappings(DictSet(manual_mappings, unmatched_choice, datagolf_choice))
    /\ saved' = [saved EXCEPT ![unmatched_choice] = datagolf_choice]
    /\ UNCHANGED <<datagolf_df, bookmaker_df, bookmaker_name, bookmaker_places,
                   place_term, tweaks, arg, ret>>
    /\ Rerun

\* the slot the if/elif chain of "Update Odds" writes to: the first whose name
\* input equals the selected display name
FirstNamed(names, book) == CHOOSE k \in Slots : names[k] = book /\ \A j \in 1..(k - 1) : names[j] # book

\* df.loc[df['Player'] == player, 'Fractional Odds'] = new_odds
SetOdds(table, player, new_odds) ==
    [table EXCEPT !.rows = [i \in 1..Len(table.rows) |->
                               IF table.rows[i].Player = player
                               THEN [table.rows[i] EXCEPT !.FractionalOdds = new_odds]
                               ELSE table.rows[i]]]

\* the slot "Update Odds" writes to for the selected display name
UpdateTarget(names, book) == FirstNamed(names, book)

\* "Update Odds" in the edit expander: book_to_edit is a key of
\* bookmaker_options, player_to_edit a player of the table it refers to
UpdateOdds(book_to_edit, player_to_edit, new_odds) ==
    /\ view.success
    /\ tweaks < MaxTweaks
    /\ LET options == bookmaker_options(bookmaker_df, bookmaker_name)
       IN  /\ DictHas(options, book_to_edit)
           /\ LET sel == DictGet(options, book_to_edit)
                  df_to_edit == bookmaker_df[sel]
                  mine(r) == r.Player = player_to_edit
                  target == UpdateTarget(bookmaker_name, book_to_edit)
              IN  /\ \E i \in 1..Len(df_to_edit.rows) : mine(df_to_edit.rows[i])
                  /\ new_odds # Head(SelectSeq(df_to_edit.rows, mine)).FractionalOdds
                  /\ tweaks' = tweaks + 1
                  /\ UNCHANGED <<datagolf_df, bookmaker_name, bookmaker_places,
                                 place_term, mappings_file, saved, arg, ret>>
                  /\ IF bookmaker_df[target].loaded
                     THEN /\ bookmaker_df' = [bookmaker_df EXCEPT
                                                ![target] = SetOdds(@, player_to_edit, new_odds)]
                          /\ Rerun
                     ELSE \* st.session_state.bookmaker_df_<target> is None:
                          \* AttributeError, caught by the block's except
                          /\ bookmaker_df' = bookmaker_df
                          /\ view' = [view EXCEPT !.error = TRUE,
                                        !.cause = "AttributeError", !.win = <<>>,
                                        !.pos = <<>>, !.ew = <<>>, !.labeled = <<>>]

\* "Clear App State": every session key is deleted, the widgets included; the
\* mappings file stays
ClearState ==
    /\ datagolf_df' = NoTable
    /\ bookmaker_df' = [k \in Slots |-> NoTable]
    /\ bookmaker_name' = [k \in Slots |-> DefaultName(k)]
    /\ bookmaker_places' = [k \in Slots |-> DefaultPlaces]
    /\ place_term' = [k \in Slots |-> DefaultTerm]
    /\ view' = EmptyView
    /\ tweaks' = 0
    /\ UNCHANGED <<mappings_file, saved, arg, ret>>

Next ==
    \/ \E uploads \in SUBSET Slots, f \in DataGolfFiles : RunAnalysis(uploads, f)
    \/ RunMissingFile
    \/ \E k \in Slots : \E name \in NameChoices(k) : SetName(k, name)
    \/ \E k \in Slots, places \in PlaceChoices : SetPlaces(k, places)
    \/ \E k \in Slots, term \in TermChoices : SetTerm(k, term)
    \/ \E x \in RawNames, y \in MatchChoices :
          /\ \E i \in 1..Len(datagolf_df.rows) : datagolf_df.rows[i].player_name = y
          /\ SaveMatch(x, y)
    \/ \E b \in {DefaultName(k) : k \in Slots}, p \in RawNames, o \in NewOddsChoices :
          UpdateOdds(b, p, o)
    \/ ClearState

Spec == Init /\ [][Next]_vars

-----------------------------------------------------------------------------
(* The converter on its own: every text of at most MaxLen characters over a
   small alphabet is handed to fractional_to_decimal once *)

Alphabet == {"0", "1", "5", "/", ".", "-", "a"}

RECURSIVE Texts(_)
Texts(n) ==
    IF n = 0 THEN {<<>>}
    ELSE LET shorter == Texts(n - 1)
         IN  shorter \cup {Append(t, c) : t \in {u \in shorter : Len(u) = n - 1}, c \in Alphabet}

Pending == [kind |-> "pending"]

InitConv ==
    /\ datagolf_df = NoTable
    /\ bookmaker_df = [k \in Slots |-> NoTable]
    /\ bookmaker_name = [k \in Slots |-> DefaultName(k)]
    /\ bookmaker_places = [k \in Slots |-> DefaultPlaces]
    /\ place_term = [k \in Slots |-> DefaultTerm]
    /\ mappings_file = NoFile
    /\ view = EmptyView
    /\ saved = [x \in RawNames |-> Unsaved]
    /\ tweaks = 0
    /\ arg \in Texts(MaxLen)
    /\ ret = Pending

Convert ==
    /\ ret = Pending
    /\ ret' = fractional_to_decimal(arg)
    /\ UNCHANGED <<datagolf_df, bookmaker_df, bookmaker_name, bookmaker_places,
                   place_term, mappings_file, view, saved, tweaks, arg>>

NextConv == Convert

SpecConv == InitConv /\ [][NextConv]_vars

-----------------------------------------------------------------------------
(* Claims *)

\* a text "N/D": one slash with an integer literal on each side
IsFraction(s) ==
    /\ Cardinality({i \in 1..Len(s) : s[i] = "/"}) = 1
    /\ ParseInt(Split(s, "/")[1]).ok
    /\ ParseInt(Split(s, "/")[2]).ok

Numerator(s) == ParseInt(Split(s, "/")[1]).v
Denominator(s) == ParseInt(Split(s, "/")[2]).v

\* C1: the converter never lets an exception reach its caller; a well-formed
\* "N/D" with D # 0 gives N/D + 1; a fraction with denominator zero, and every
\* text that is neither a fraction nor a number, gives None (absent).
C1_ConverterNeverRaises ==
    ret # Pending =>
        /\ ret.kind # "raise"
        /\ IsFraction(arg) /\ Denominator(arg) # 0 =>
               ret = RAdd(Rat(Numerator(arg), Denominator(arg)), RInt(1))
        /\ IsFraction(arg) /\ Denominator(arg) = 0 => ret = None
        /\ ~IsFraction(arg) /\ ~ParseFloat(arg).ok => ret = None


-----------------------------------------------------------------------------
(* The session as the claims see it *)

CurrentRows == BookmakerRows(bookmaker_df, bookmaker_name, bookmaker_places, place_term)
CurrentMappings == load_manual_mappings(mappings_file)
CurrentList == datagolf_player_list(datagolf_df)
CurrentMatched ==
    MatchedRows(datagolf_df, bookmaker_df, bookmaker_name, bookmaker_places,
                place_term, mappings_file)
CurrentBase == base_comparison_df(CurrentMatched, datagolf_df)

Name(n) == [kind |-> "name", name |-> n]
InSeq(x, s) == \E i \in 1..Len(s) : s[i] = x

\* candidate lists to resolve against: none, and the list of every prediction file
CandidateLists == {<<>>} \cup {datagolf_player_list(f) : f \in DataGolfFiles}

\* C2 (state part): a raw name with a saved mapping resolves to the saved target
\* against every candidate list, is not offered as unmatched by the run that
\* follows the save or by any later run, and is shown under the saved target.
C2_SavedResolves ==
    \A x \in RawNames :
        saved[x] # Unsaved =>
            /\ \A l \in CandidateLists : get_match(x, CurrentMappings, l) = Name(saved[x])
            /\ ~InSeq(x, view.unmatched)
            /\ \A i \in 1..Len(view.win) :
                   view.win[i].Player = x => view.win[i].matched_player = saved[x]

\* C2 (step part): no step removes a stored mapping, and a stored target changes
\* only in a step that saves a new target for that very name.
C2_OnlyOwnSaveChanges ==
    \A x \in RawNames :
        DictHas(CurrentMappings, x) =>
            /\ DictHas(load_manual_mappings(mappings_file'), x)
            /\ \/ DictGet(load_manual_mappings(mappings_file'), x) = DictGet(CurrentMappings, x)
               \/ /\ saved'[x] # saved[x]
                  /\ saved'[x] = DictGet(load_manual_mappings(mappings_file'), x)

\* C2: once X -> Y is saved, X resolves to Y in the same run after the refresh and
\* in every later run, whatever the candidate list and whatever is saved for other
\* names in between; only a save for X itself changes it, keeping the others.
C2_MappingSticks == [] C2_SavedResolves /\ [][C2_OnlyOwnSaveChanges]_vars

\* C2 witness: "R McIlroy" was saved first, "P Unknown" after it, and a later
\* run against a prediction table without the saved target has a row of that name
C2_Witness ==
    /\ saved["R McIlroy"] = "Rory McIlroy"
    /\ saved["P Unknown"] # Unsaved
    /\ mappings_file.rows[1][1] = "R McIlroy"
    /\ view.ran
    /\ ~InSeq("Rory McIlroy", CurrentList)
    /\ \E i \in 1..Len(CurrentRows) : CurrentRows[i].Player = "R McIlroy"

\* the highest score of a name over a candidate list
BestScore(x, l) == CHOOSE b \in 0..100 :
                      /\ \E i \in 1..Len(l) : Score(x, l[i]) = b
                      /\ \A i \in 1..Len(l) : Score(x, l[i]) <= b

\* the first candidate with the highest score when that is 90 or more
Threshold(x, l) ==
    IF l # <<>> /\ BestScore(x, l) >= 90
    THEN Name(l[CHOOSE i \in 1..Len(l) :
                  /\ Score(x, l[i]) = BestScore(x, l)
                  /\ \A j \in 1..(i - 1) : Score(x, l[j]) < BestScore(x, l)])
    ELSE None

\* C3: without a manual mapping a name resolves to the first-encountered
\* highest-scoring candidate when that score is at least 90 and is unresolved
\* when it is 89 or less; the unresolved list of a run is exactly the names of
\* the bookmaker rows with no manual mapping and no candidate scoring 90 or more.
C3_ThresholdMatch ==
    view.ran =>
        LET open(r) == /\ ~DictHas(CurrentMappings, r.Player)
                       /\ Threshold(r.Player, CurrentList) = None
            unresolved == SelectSeq(CurrentRows, open)
        IN  /\ \A i \in 1..Len(CurrentRows) :
                   ~DictHas(CurrentMappings, CurrentRows[i].Player) =>
                       get_match(CurrentRows[i].Player, CurrentMappings, CurrentList)
                           = Threshold(CurrentRows[i].Player, CurrentList)
            /\ view.unmatched = [i \in 1..Len(unresolved) |-> unresolved[i].Player]
            /\ \A i \in 1..Len(view.win) :
                   ~DictHas(CurrentMappings, view.win[i].Player) =>
                       Name(view.win[i].matched_player)
                           = Threshold(view.win[i].Player, CurrentList)

\* C3 witness: a run shows a row matched at exactly 90 to the first of two
\* candidates that both score 90, and leaves a name whose best score is 89 unmatched
C3_Witness ==
    /\ view.ran
    /\ \E i \in 1..Len(view.win) :
          /\ ~DictHas(CurrentMappings, view.win[i].Player)
          /\ BestScore(view.win[i].Player, CurrentList) = 90
          /\ Cardinality({j \in 1..Len(CurrentList) :
                             Score(view.win[i].Player, CurrentList[j]) = 90}) = 2
          /\ view.win[i].matched_player = CurrentList[1]
    /\ \E i \in 1..Len(view.unmatched) : BestScore(view.unmatched[i], CurrentList) = 89


\* a run that rendered its tables
Rendered == view.ran /\ view.success /\ ~view.error

\* C4: an each-way row exists for a (player, bookmaker) pair only when the pair
\* is in both the win rows and the positional rows, its value is the mean of the
\* edges of a win row and a positional row of that pair, every pair of such rows
\* gives a row, and a pair missing from either side gives none.
C4_EachWayIsMeanOfPair ==
    Rendered =>
        /\ \A i \in 1..Len(view.ew) :
              \E w \in 1..Len(view.win), p \in 1..Len(view.pos) :
                  /\ view.win[w].src = view.ew[i].wsrc
                  /\ view.pos[p].src = view.ew[i].psrc
                  /\ MergeKey(view.win[w]) = MergeKey(view.ew[i])
                  /\ MergeKey(view.pos[p]) = MergeKey(view.ew[i])
                  /\ view.ew[i].EachWayValue
                        = RDiv(RAdd(view.win[w].Edge, view.pos[p].Edge), RInt(2))
        /\ \A w \in 1..Len(view.win), p \in 1..Len(view.pos) :
              MergeKey(view.win[w]) = MergeKey(view.pos[p]) =>
                  \E i \in 1..Len(view.ew) :
                      /\ view.ew[i].wsrc = view.win[w].src
                      /\ view.ew[i].psrc = view.pos[p].src

\* C4 witness: the each-way table has a row, and a pair of the positional table
\* that is missing from the win table has none
C4_Witness ==
    /\ Rendered
    /\ view.ew # <<>>
    /\ \E p \in 1..Len(view.pos) :
          /\ \A w \in 1..Len(view.win) : MergeKey(view.win[w]) # MergeKey(view.pos[p])
          /\ \A i \in 1..Len(view.ew) : MergeKey(view.ew[i]) # MergeKey(view.pos[p])

\* C5: a joined row is in the positional table exactly when its quote converts
\* and the prediction table has a numeric top-N cell for the row's own place
\* count N; the row then carries that cell and 1 + (win decimal - 1) / divisor
\* with the divisor of its own place term. A row whose place count has no column
\* is in neither the positional nor the each-way table, its win row is still
\* there, and the run shows no error.
C5_OwnPlacesOrDropped ==
    (view.ran /\ view.matches > 0 /\ view.cause = "") =>
        /\ ~view.error
        /\ \A b \in 1..Len(CurrentBase) :
              LET r == CurrentBase[b]
                  dec == fractional_to_decimal(r.FractionalOdds)
                  divisor == ParseInt(Split(r.PlaceTerm, "/")[2]).v
                  top == IF r.Places \in DOMAIN r.top THEN to_numeric(r.top[r.Places]) ELSE NaN
                  shown == {p \in 1..Len(view.pos) : view.pos[p].src = r.src}
              IN  /\ (shown # {}) <=> (IsNum(dec) /\ IsNum(top))
                  /\ \A p \in shown :
                        /\ view.pos[p].DataGolfOdds = top
                        /\ view.pos[p].BookmakerOdds
                              = RAdd(RInt(1), RDiv(RSub(dec, RInt(1)), RInt(divisor)))
                  /\ r.Places \notin DOMAIN r.top =>
                        /\ shown = {}
                        /\ \A i \in 1..Len(view.ew) :
                              view.ew[i].wsrc # r.src /\ view.ew[i].psrc # r.src
                        /\ (IsNum(dec) /\ IsNum(to_numeric(r.win))) =>
                              \E w \in 1..Len(view.win) : view.win[w].src = r.src

\* C6: the win table holds exactly the joined rows whose quote and model win
\* odds both convert to a number, a failed conversion never aborts the run, and
\* each row's edge is (bookmaker / model - 1) * 100, positive exactly when the
\* bookmaker odds exceed the model odds.
C6_WinRowsExactlyConvertible ==
    (view.ran /\ view.matches > 0 /\ view.cause # "AttributeError") =>
        LET conv(r) == /\ IsNum(fractional_to_decimal(r.FractionalOdds))
                       /\ IsNum(to_numeric(r.win))
            kept == SelectSeq(CurrentBase, conv)
        IN  /\ ~view.error
            /\ Len(view.win) = Len(kept)
            /\ \A i \in 1..Len(view.win) :
                  /\ view.win[i].src = kept[i].src
                  /\ view.win[i].Edge
                        = RMul(RSub(RDiv(fractional_to_decimal(kept[i].FractionalOdds),
                                         to_numeric(kept[i].win)), RInt(1)), RInt(100))
                  /\ RLess(RInt(0), view.win[i].Edge)
                        <=> RLess(view.win[i].DataGolfOdds, view.win[i].BookmakerOdds)

\* C7 (as stated): whenever the join is empty the run shows the "no matching
\* players" message and no error, also when every bookmaker name is unresolved.
C7_EmptyJoinAlwaysInfo ==
    (view.ran /\ view.matches = 0) => (view.info /\ ~view.error)

\* C7 (amended): when the join is empty the run shows no error; it shows the "no
\* matching players" message exactly when no name is unmatched, and otherwise
\* shows the unmatched-names warning instead.
C7_EmptyJoinInfoUnlessUnmatched ==
    (view.ran /\ view.matches = 0) =>
        /\ ~view.error
        /\ view.info <=> (view.unmatched = <<>>)
        /\ ~view.info => view.warning

\* C7 witness: a run with tables loaded whose join is empty and that shows the
\* "no matching players" message
C7_Witness ==
    /\ view.ran /\ view.matches = 0 /\ view.info
    /\ CurrentRows # <<>>

\* the table the edit expander shows for a display name
Selected(book) == DictGet(bookmaker_options(bookmaker_df, bookmaker_name), book)

\* C8: an "Update Odds" step replaces the odds of the chosen player in the table
\* of the selected source and leaves every other table, the prediction table and
\* the mappings file as they were; a step that is no "Update Odds", no "Run
\* Analysis" and no "Clear App State" leaves all bookmaker tables unchanged.
C8_Step ==
    /\ \A b \in {DefaultName(k) : k \in Slots}, p \in RawNames, o \in NewOddsChoices :
          UpdateOdds(b, p, o) =>
              /\ bookmaker_df' = [bookmaker_df EXCEPT ![Selected(b)] = SetOdds(@, p, o)]
              /\ datagolf_df' = datagolf_df
              /\ mappings_file' = mappings_file
    /\ \/ bookmaker_df' = bookmaker_df
       \/ \E b \in {DefaultName(k) : k \in Slots}, p \in RawNames, o \in NewOddsChoices :
             UpdateOdds(b, p, o)
       \/ \E uploads \in SUBSET Slots, f \in DataGolfFiles : RunAnalysis(uploads, f)
       \/ ClearState

C8_UpdateOddsFrame == [][C8_Step]_vars

UniqueInputs ==
    /\ \A k \in Slots : \A i, j \in 1..Len(bookmaker_df[k].rows) :
          bookmaker_df[k].rows[i].Player = bookmaker_df[k].rows[j].Player => i = j
    /\ \A i, j \in 1..Len(datagolf_df.rows) :
          datagolf_df.rows[i].player_name = datagolf_df.rows[j].player_name => i = j

\* the canonical player and the source of a table entry
Entry(src) == CHOOSE r \in {CurrentBase[b] : b \in 1..Len(CurrentBase)} : r.src = src
Pair(src) == <<Entry(src).matched_player.name, src[1]>>

\* C10: with unique inputs the win, positional and each-way tables have at most
\* one row per (canonical player, source), whatever the names, place counts and
\* place terms of the sources, and every each-way row blends the win edge and
\* the positional edge of one and the same bookmaker entry.
C10_OneRowPerPair ==
    (Rendered /\ UniqueInputs) =>
        /\ \A i, j \in 1..Len(view.win) :
              Pair(view.win[i].src) = Pair(view.win[j].src) => i = j
        /\ \A i, j \in 1..Len(view.pos) :
              Pair(view.pos[i].src) = Pair(view.pos[j].src) => i = j
        /\ \A i, j \in 1..Len(view.ew) :
              Pair(view.ew[i].wsrc) = Pair(view.ew[j].wsrc) => i = j
        /\ \A i \in 1..Len(view.ew) : view.ew[i].wsrc = view.ew[i].psrc

\* C11: in every run each bookmaker row is accounted for: it is in the joined
\* comparison, or its raw name is in the unresolved list offered for manual
\* matching; no row is left out of both.
C11_EveryRowAccounted ==
    view.ran =>
        /\ view.matches = Len(CurrentBase)
        /\ \A i \in 1..Len(CurrentRows) :
              \/ \E b \in 1..Len(CurrentBase) : CurrentBase[b].src = CurrentRows[i].src
              \/ InSeq(CurrentRows[i].Player, view.unmatched)

====
